---- MODULE Spec2Model ----
(***************************************************************************)
(* Model of src/main.rs: the ownership demonstration.  main is a straight   *)
(* line of statements over owned String buffers, integers and references;  *)
(* the helper functions are called from main and, as functions in their    *)
(* own right, from a unit caller that builds an arbitrary argument.        *)
(*                                                                         *)
(* A String's content is its text (ASCII throughout, so bytes = chars).    *)
(* A buffer is identified by the ordinal of its allocation.  A variable    *)
(* keeps the handle it held after it is moved from (a move copies the      *)
(* bits and clears the drop flag), so a later use of it is visible.        *)
(***************************************************************************)
EXTENDS Integers, Sequences, FiniteSets, TLC

VARIABLES
    mode,   \* "main": the program run; "unit": one helper called on its own
    pc,     \* next statement, by source line ("L12"), or "rejected" / "done"
    env,    \* variable name -> its slot (status, kind, handle, scalar, referent)
    heap,   \* buffer id -> [content, live, releases]; ids are allocation ordinals
    out,    \* standard output: the lines printed so far
    frame,  \* the active call: where it returns and which variables receive
    uam,    \* uses of a moved-from variable: <<statement, variable>>
    lit     \* the literal the caller builds its argument from

vars == <<mode, pc, env, heap, out, frame, uam, lit>>

\* ---------------------------------------------------------------- bounds

MaxLen == 2
MaxInt == 12

\* ------------------------------------------------------------- variables

MainLocals ==
    <<"s", "str", "x", "y", "s1", "s2", "my_s1", "my_s2", "my_p", "my_q",
      "my_str", "my_x", "s_1", "s_2", "s_3", "s_4", "s_5", "len", "str_1",
      "len#2", "str_2", "str_3", "r2">>

UnitLocals == <<"arg", "n", "res", "res_len">>

FnLocals ==
    {"takes_ownership.some_string", "makes_copy.some_integer",
     "gives_ownership.some_string", "takes_and_gives_back.a_string",
     "calculate_length.s", "calculate_length.length",
     "calculate_length_ref.s", "change.some_string"}

Range(q) == {q[i] : i \in 1..Len(q)}

VarNames == Range(MainLocals) \cup {"r1"} \cup Range(UnitLocals) \cup FnLocals

Undecl == [st |-> "undecl", kind |-> "none", h |-> 0, n |-> 0, to |-> "-"]
OwnVal(b) == [st |-> "valid", kind |-> "String", h |-> b, n |-> 0, to |-> "-"]
IntVal(k) == [st |-> "valid", kind |-> "int", h |-> 0, n |-> k, to |-> "-"]
RefVal(v, m) ==
    [st |-> "valid", kind |-> IF m THEN "refmut" ELSE "ref", h |-> 0, n |-> 0, to |-> v]

NoFrame == [ret |-> "-", dst |-> "-", dst2 |-> "-"]

\* ------------------------------------------------------------ operations

\* String::from(text): a fresh heap buffer holding the text.
StringFrom(hp, text) == Append(hp, [content |-> text, live |-> TRUE, releases |-> 0])

\* String::push_str: the text with the literal appended.
PushStr_Prepend(text, l) == l \o text
PushStr_Overwrite(text, l) == l
PushStr(text, l) == text \o l

\* String::len.
StrLen_OffByOne(text) == Len(text) + 1
StrLen(text) == Len(text)

\* The buffer a String variable, or the referent of a reference, denotes.
Target(e, v) == IF e[v].kind \in {"ref", "refmut"} THEN e[e[v].to].h ELSE e[v].h

\* A move out of v: the slot keeps its bits, the variable is inert.
MoveOut_KeepsSource(e, v) == e
MoveOut(e, v) == [e EXCEPT ![v].st = "moved"]

\* Scope end of v: the variable is gone.
EndScope(e, v) == [e EXCEPT ![v].st = "dropped"]

\* drop at scope end: an owned, not moved-from String releases its buffer.
DropHeap_NoDropFlag(hp, e, v) ==
    IF e[v].kind = "String" /\ e[v].st \in {"valid", "moved"}
    THEN [hp EXCEPT ![e[v].h].live = FALSE, ![e[v].h].releases = @ + 1]
    ELSE hp
DropHeap_ThroughRef(hp, e, v) ==
    IF e[v].st = "valid" /\ e[v].kind \in {"String", "ref", "refmut"}
    THEN [hp EXCEPT ![Target(e, v)].live = FALSE, ![Target(e, v)].releases = @ + 1]
    ELSE hp
DropHeap(hp, e, v) ==
    IF e[v].kind = "String" /\ e[v].st = "valid"
    THEN [hp EXCEPT ![e[v].h].live = FALSE, ![e[v].h].releases = @ + 1]
    ELSE hp

\* A statement at `at` uses v: recorded when v was moved from.
Use(u, e, at, v) == IF e[v].st = "moved" THEN u \cup {<<at, v>>} ELSE u

\* Display for integers: decimal digits, "-" first when negative.
Digit(d) == <<"0", "1", "2", "3", "4", "5", "6", "7", "8", "9">>[d + 1]
RECURSIVE Dec(_)
Dec(k) ==
    IF k < 0 THEN "-" \o Dec(0 - k)
    ELSE IF k < 10 THEN Digit(k)
    ELSE Dec(k \div 10) \o Digit(k % 10)

\* println!: one line appended to standard output.
Println_Silent(o, line) == o
Println(o, line) == Append(o, line)

\* The texts and integers a unit caller passes.
Alphabet == {"a", "b"}
RECURSIVE Texts(_)
Texts(k) ==
    IF k = 0 THEN {""}
    ELSE LET S == Texts(k - 1) IN S \cup {x \o c : x \in S, c \in Alphabet}
Inputs == Texts(MaxLen)
IntInputs == (0 - MaxInt)..MaxInt

\* ------------------------------------------------------------------ Init

Init ==
    /\ mode \in {"main", "unit"}
    /\ pc = IF mode = "main" THEN "L12" ELSE "U_let"
    /\ env = [v \in VarNames |-> Undecl]
    /\ heap = <<>>
    /\ out = <<>>
    /\ frame = NoFrame
    /\ uam = {}
    /\ lit \in IF mode = "main" THEN {"hello"} ELSE Inputs

\* ------------------------------------------------------------ statements

Content(hp, e, v) == hp[Target(e, v)].content

\* let v = String::from(text);
LetString(at, nxt, v, text) ==
    /\ pc = at
    /\ heap' = StringFrom(heap, text)
    /\ env' = [env EXCEPT ![v] = OwnVal(Len(heap) + 1)]
    /\ pc' = nxt
    /\ UNCHANGED <<mode, out, frame, uam, lit>>

\* let v = k;
LetInt(at, nxt, v, k) ==
    /\ pc = at
    /\ env' = [env EXCEPT ![v] = IntVal(k)]
    /\ pc' = nxt
    /\ UNCHANGED <<mode, heap, out, frame, uam, lit>>

\* let v = w; for integers (Copy): w stays valid.
LetCopy(at, nxt, v, w) ==
    /\ pc = at
    /\ env' = [env EXCEPT ![v] = IntVal(env[w].n)]
    /\ pc' = nxt
    /\ UNCHANGED <<mode, heap, out, frame, uam, lit>>

\* let v = w; for Strings (move): v owns the buffer, w is inert.
LetMove(at, nxt, v, w) ==
    /\ pc = at
    /\ env' = [MoveOut(env, w) EXCEPT ![v] = OwnVal(env[w].h)]
    /\ uam' = Use(uam, env, at, w)
    /\ pc' = nxt
    /\ UNCHANGED <<mode, heap, out, frame, lit>>

\* let v = w.clone(); a fresh buffer with the content w's handle denotes.
LetClone(at, nxt, v, w) ==
    /\ pc = at
    /\ heap' = StringFrom(heap, Content(heap, env, w))
    /\ env' = [env EXCEPT ![v] = OwnVal(Len(heap) + 1)]
    /\ uam' = Use(uam, env, at, w)
    /\ pc' = nxt
    /\ UNCHANGED <<mode, out, frame, lit>>

\* v.push_str(l); v a String or a mutable reference to one.
PushStrStmt(at, nxt, v, l) ==
    /\ pc = at
    /\ heap' = [heap EXCEPT ![Target(env, v)].content = PushStr(@, l)]
    /\ uam' = Use(uam, env, at, v)
    /\ pc' = nxt
    /\ UNCHANGED <<mode, env, out, frame, lit>>

\* println!(..) of `line`, which reads the variables in `read`.
PrintStmt(at, nxt, line, read) ==
    /\ pc = at
    /\ out' = Println(out, line)
    /\ uam' = uam \cup {<<at, v>> : v \in {w \in read : env[w].st = "moved"}}
    /\ pc' = nxt
    /\ UNCHANGED <<mode, env, heap, frame, lit>>

\* let r = &v; or let r = &mut v;
LetRef(at, nxt, r, v, m) ==
    /\ pc = at
    /\ env' = [env EXCEPT ![r] = RefVal(v, m)]
    /\ uam' = Use(uam, env, at, v)
    /\ pc' = nxt
    /\ UNCHANGED <<mode, heap, out, frame, lit>>

\* f(v) for a String v: the parameter owns the buffer, v is inert.
CallByValue(at, entry, ret, param, v, dst, dst2) ==
    /\ pc = at
    /\ env' = [MoveOut(env, v) EXCEPT ![param] = OwnVal(env[v].h)]
    /\ uam' = Use(uam, env, at, v)
    /\ frame' = [ret |-> ret, dst |-> dst, dst2 |-> dst2]
    /\ pc' = entry
    /\ UNCHANGED <<mode, heap, out, lit>>

\* f(v) for an integer v: the parameter is a copy.
CallByCopy(at, entry, ret, param, v) ==
    /\ pc = at
    /\ env' = [env EXCEPT ![param] = IntVal(env[v].n)]
    /\ frame' = [ret |-> ret, dst |-> "-", dst2 |-> "-"]
    /\ pc' = entry
    /\ UNCHANGED <<mode, heap, out, uam, lit>>

\* f(&v) or f(&mut v): the parameter is a reference to v.
CallByRef(at, entry, ret, param, v, m, dst2) ==
    /\ pc = at
    /\ env' = [env EXCEPT ![param] = RefVal(v, m)]
    /\ uam' = Use(uam, env, at, v)
    /\ frame' = [ret |-> ret, dst |-> "-", dst2 |-> dst2]
    /\ pc' = entry
    /\ UNCHANGED <<mode, heap, out, lit>>

\* f() with no argument.
CallNoArg(at, entry, ret, dst) ==
    /\ pc = at
    /\ frame' = [ret |-> ret, dst |-> dst, dst2 |-> "-"]
    /\ pc' = entry
    /\ UNCHANGED <<mode, env, heap, out, uam, lit>>

\* The closing brace of a function whose one local p is still in scope:
\* p is dropped and control returns.
FnEnd(at, p) ==
    /\ pc = at
    /\ heap' = DropHeap(heap, env, p)
    /\ env' = EndScope(env, p)
    /\ pc' = frame.ret
    /\ frame' = NoFrame
    /\ UNCHANGED <<mode, out, uam, lit>>

\* The closing brace of a block whose locals are `locals`, in declaration
\* order: one step drops the last declared local still in scope; when none
\* is left control passes on.
InScope(e, locals) == {i \in 1..Len(locals) : e[locals[i]].st \in {"valid", "moved"}}
Last(S) == CHOOSE i \in S : \A j \in S : j <= i
BlockEnd_NoDrop(at, nxt, locals) ==
    /\ pc = at
    /\ pc' = nxt
    /\ UNCHANGED <<mode, env, heap, out, frame, uam, lit>>
BlockEnd(at, nxt, locals) ==
    /\ pc = at
    /\ IF InScope(env, locals) = {}
       THEN /\ pc' = nxt
            /\ UNCHANGED <<env, heap>>
       ELSE LET v == locals[Last(InScope(env, locals))] IN
            /\ heap' = DropHeap(heap, env, v)
            /\ env' = EndScope(env, v)
            /\ pc' = at
    /\ UNCHANGED <<mode, out, frame, uam, lit>>

\* ------------------------------------------------------------------ main

\* The build checks ownership before anything runs: main uses s1 (line 37)
\* after moving it (line 33), so the build may refuse and nothing executes.
BuildRejected ==
    /\ mode = "main"
    /\ pc = "L12"
    /\ pc' = "rejected"
    /\ UNCHANGED <<mode, env, heap, out, frame, uam, lit>>

Main_L12 == mode = "main" /\ LetString("L12", "L14", "s", "hello")
Main_L14 == PrintStmt("L14", "L16", Content(heap, env, "s"), {"s"})

Main_L16 == LetString("L16", "L17", "str", "Hello")
Main_L17 == PushStrStmt("L17", "L18", "str", ", World!")
Main_L18 == PrintStmt("L18", "L28", Content(heap, env, "str"), {"str"})

Main_L28 == LetInt("L28", "L29", "x", 5)
Main_L29 == LetCopy("L29", "L32", "y", "x")

Main_L32 == LetString("L32", "L33", "s1", "hello")
Main_L33 == LetMove("L33", "L36", "s2", "s1")

Main_L36 == LetString("L36", "L37", "my_s1", "hello")
Main_L37 == LetClone("L37", "L38", "my_s2", "s1")
Main_L38 ==
    PrintStmt("L38", "L42",
              "my_s1 = " \o Content(heap, env, "my_s1")
                  \o ", my_s2 = " \o Content(heap, env, "my_s2"),
              {"my_s1", "my_s2"})

Main_L42 == LetInt("L42", "L43", "my_p", 5)
Main_L43 == LetCopy("L43", "L44", "my_q", "my_p")
Main_L44 ==
    PrintStmt("L44", "L47",
              "my_p = " \o Dec(env["my_p"].n) \o ", my_q = " \o Dec(env["my_q"].n),
              {"my_p", "my_q"})

Main_L47 == LetString("L47", "L49", "my_str", "hello")
Main_L49 ==
    CallByValue("L49", "L93", "L51", "takes_ownership.some_string", "my_str", "-", "-")

Main_L51 == LetInt("L51", "L52", "my_x", 5)
Main_L52 == CallByCopy("L52", "L97", "L55", "makes_copy.some_integer", "my_x")

Main_L55 == CallNoArg("L55", "L102", "L56", "s_1")
Main_L56 == LetString("L56", "L57", "s_2", "hello")
Main_L57 ==
    CallByValue("L57", "L107", "L60", "takes_and_gives_back.a_string", "s_2", "s_3", "-")

Main_L60 == LetString("L60", "L61", "s_4", "hello")
Main_L61 == CallByValue("L61", "L111", "L62", "calculate_length.s", "s_4", "s_5", "len")
Main_L62 ==
    PrintStmt("L62", "L65",
              "The length of '" \o Content(heap, env, "s_5")
                  \o "' is " \o Dec(env["len"].n),
              {"s_5", "len"})

Main_L65 == LetString("L65", "L66", "str_1", "hello")
Main_L66 ==
    CallByRef("L66", "L117", "L67", "calculate_length_ref.s", "str_1", FALSE, "len#2")
Main_L67 ==
    PrintStmt("L67", "L70",
              "The length of '" \o Content(heap, env, "str_1")
                  \o "' is " \o Dec(env["len#2"].n),
              {"str_1", "len#2"})

Main_L70 == LetString("L70", "L71", "str_2", "hello")
Main_L71 == CallByRef("L71", "L123", "L73", "change.some_string", "str_2", TRUE, "-")

Main_L73 == LetString("L73", "L75", "str_3", "hello")
Main_L75 == LetRef("L75", "L76", "r1", "str_3", TRUE)
Main_L76 == BlockEnd("L76", "L77", <<"r1">>)
Main_L77 == LetRef("L77", "L90", "r2", "str_3", TRUE)

Main_L90 == BlockEnd("L90", "done", MainLocals)

\* ------------------------------------------------------------- functions

takes_ownership_L93 ==
    PrintStmt("L93", "L94", Content(heap, env, "takes_ownership.some_string"),
              {"takes_ownership.some_string"})
takes_ownership_L94 == FnEnd("L94", "takes_ownership.some_string")

makes_copy_L97 ==
    PrintStmt("L97", "L98", Dec(env["makes_copy.some_integer"].n),
              {"makes_copy.some_integer"})
makes_copy_L98 == FnEnd("L98", "makes_copy.some_integer")

gives_ownership_L102 == LetString("L102", "L103", "gives_ownership.some_string", "hello")

\* The tail expression moves the local out to the caller's variable; the
\* closing brace then finds the local moved from.
ReturnString(at, p) ==
    /\ pc = at
    /\ LET moved == [MoveOut(env, p) EXCEPT ![frame.dst] = OwnVal(env[p].h)] IN
       /\ heap' = DropHeap(heap, moved, p)
       /\ env' = EndScope(moved, p)
    /\ uam' = Use(uam, env, at, p)
    /\ pc' = frame.ret
    /\ frame' = NoFrame
    /\ UNCHANGED <<mode, out, lit>>

gives_ownership_L103 == ReturnString("L103", "gives_ownership.some_string")

takes_and_gives_back_L107 == ReturnString("L107", "takes_and_gives_back.a_string")

calculate_length_L111 ==
    /\ pc = "L111"
    /\ env' = [env EXCEPT !["calculate_length.length"] =
                   IntVal(StrLen(Content(heap, env, "calculate_length.s")))]
    /\ uam' = Use(uam, env, "L111", "calculate_length.s")
    /\ pc' = "L112"
    /\ UNCHANGED <<mode, heap, out, frame, lit>>

calculate_length_L112 ==
    /\ pc = "L112"
    /\ LET moved == [MoveOut(env, "calculate_length.s") EXCEPT
                         ![frame.dst] = OwnVal(env["calculate_length.s"].h),
                         ![frame.dst2] = IntVal(env["calculate_length.length"].n)]
           gone == EndScope(moved, "calculate_length.length")
       IN
       /\ heap' = DropHeap(DropHeap(heap, moved, "calculate_length.length"),
                           gone, "calculate_length.s")
       /\ env' = EndScope(gone, "calculate_length.s")
    /\ uam' = Use(uam, env, "L112", "calculate_length.s")
    /\ pc' = frame.ret
    /\ frame' = NoFrame
    /\ UNCHANGED <<mode, out, lit>>

\* s.len() is the value returned; then s, a reference, goes out of scope.
calculate_length_ref_L117 ==
    /\ pc = "L117"
    /\ LET got == [env EXCEPT ![frame.dst2] =
                       IntVal(StrLen(Content(heap, env, "calculate_length_ref.s")))]
       IN
       /\ heap' = DropHeap(heap, got, "calculate_length_ref.s")
       /\ env' = EndScope(got, "calculate_length_ref.s")
    /\ pc' = frame.ret
    /\ frame' = NoFrame
    /\ UNCHANGED <<mode, out, uam, lit>>

change_L123 == PushStrStmt("L123", "L124", "change.some_string", ", world")
change_L124 == FnEnd("L124", "change.some_string")

\* ----------------------------------------------------------- unit caller

\* A caller other than main: it builds one argument and calls one helper.
Unit_let == mode = "unit" /\ LetString("U_let", "U_call", "arg", lit)
Unit_takes_ownership ==
    CallByValue("U_call", "L93", "U_end", "takes_ownership.some_string", "arg", "-", "-")
Unit_takes_and_gives_back ==
    CallByValue("U_call", "L107", "U_end", "takes_and_gives_back.a_string", "arg", "res", "-")
Unit_calculate_length ==
    CallByValue("U_call", "L111", "U_end", "calculate_length.s", "arg", "res", "res_len")
Unit_calculate_length_ref ==
    CallByRef("U_call", "L117", "U_end", "calculate_length_ref.s", "arg", FALSE, "res_len")
Unit_change ==
    CallByRef("U_call", "L123", "U_end", "change.some_string", "arg", TRUE, "-")
Unit_gives_ownership == mode = "unit" /\ CallNoArg("U_let", "L102", "U_end", "res")
Unit_int == mode = "unit" /\ \E k \in IntInputs : LetInt("U_let", "U_copy", "n", k)
Unit_makes_copy == CallByCopy("U_copy", "L97", "U_end", "makes_copy.some_integer", "n")
Unit_end == BlockEnd("U_end", "done", UnitLocals)

\* ------------------------------------------------------------------ Next

Next ==
    \/ BuildRejected
    \/ Main_L12 \/ Main_L14 \/ Main_L16 \/ Main_L17 \/ Main_L18
    \/ Main_L28 \/ Main_L29 \/ Main_L32 \/ Main_L33
    \/ Main_L36 \/ Main_L37 \/ Main_L38
    \/ Main_L42 \/ Main_L43 \/ Main_L44
    \/ Main_L47 \/ Main_L49 \/ Main_L51 \/ Main_L52
    \/ Main_L55 \/ Main_L56 \/ Main_L57
    \/ Main_L60 \/ Main_L61 \/ Main_L62
    \/ Main_L65 \/ Main_L66 \/ Main_L67
    \/ Main_L70 \/ Main_L71
    \/ Main_L73 \/ Main_L75 \/ Main_L76 \/ Main_L77
    \/ Main_L90
    \/ takes_ownership_L93 \/ takes_ownership_L94
    \/ makes_copy_L97 \/ makes_copy_L98
    \/ gives_ownership_L102 \/ gives_ownership_L103
    \/ takes_and_gives_back_L107
    \/ calculate_length_L111 \/ calculate_length_L112
    \/ calculate_length_ref_L117
    \/ change_L123 \/ change_L124
    \/ Unit_let \/ Unit_takes_ownership \/ Unit_takes_and_gives_back
    \/ Unit_calculate_length \/ Unit_calculate_length_ref \/ Unit_change
    \/ Unit_gives_ownership \/ Unit_int \/ Unit_makes_copy \/ Unit_end

Spec == Init /\ [][Next]_vars

\* ---------------------------------------------------- vocabulary of claims

\* The variables that own buffer b, and the live references to it.
Owners(b) ==
    {v \in VarNames : env[v].kind = "String" /\ env[v].st = "valid" /\ env[v].h = b}
LiveRefs(b) ==
    {r \in VarNames : /\ env[r].kind \in {"ref", "refmut"}
                      /\ env[r].st = "valid"
                      /\ env[env[r].to].h = b}
MutRefs(b) == {r \in LiveRefs(b) : env[r].kind = "refmut"}
Buffers == 1..Len(heap)

\* The statements of a run of main, in execution order.
MainOrder ==
    <<"L12", "L14", "L16", "L17", "L18", "L28", "L29", "L32", "L33", "L36",
      "L37", "L38", "L42", "L43", "L44", "L47", "L49", "L93", "L94", "L51",
      "L52", "L97", "L98", "L55", "L102", "L103", "L56", "L57", "L107", "L60",
      "L61", "L111", "L112", "L62", "L65", "L66", "L117", "L67", "L70", "L71",
      "L123", "L124", "L73", "L75", "L76", "L77", "L90", "done">>
Pos(l) ==
    IF \E i \in 1..Len(MainOrder) : MainOrder[i] = l
    THEN CHOOSE i \in 1..Len(MainOrder) : MainOrder[i] = l
    ELSE 0
\* main has executed the statement at l.
After(l) == mode = "main" /\ Pos(pc) > Pos(l)
Count(q, x) == Cardinality({i \in 1..Len(q) : q[i] = x})

\* ------------------------------------------------------------------ C1
\* C1: in main's statement sequence, a variable that an owned buffer has
\* been moved out of is never used again (read, cloned from, borrowed or
\* moved a second time).
C1_NoUseAfterMove == uam = {}

\* ------------------------------------------------------------------ C2
\* C2: the Clone step of main takes its source from a variable that is a
\* valid owner at that point, and afterwards source and clone are live
\* owners of two distinct buffers with equal content.
C2_CloneFromValidOwner ==
    mode = "main" =>
        /\ pc = "L37" => env["s1"].st = "valid"
        /\ pc = "L38" =>
            /\ env["s1"].st = "valid" /\ env["my_s2"].st = "valid"
            /\ env["s1"].h # env["my_s2"].h
            /\ Content(heap, env, "s1") = Content(heap, env, "my_s2")

\* ------------------------------------------------------------------ C3
\* C3: at every point every buffer created and not yet released has
\* exactly one owning variable, and a released buffer has none.
C3_ExactlyOneOwner ==
    \A b \in Buffers :
        /\ heap[b].live => Cardinality(Owners(b)) = 1
        /\ ~heap[b].live => Owners(b) = {}

\* After the moves of lines 33, 49..61: each source is inert, each
\* destination the sole owner.
C3_Witness ==
    /\ mode = "main" /\ pc = "L62"
    /\ env["s1"].st = "moved" /\ Owners(env["s1"].h) = {"s2"}
    /\ env["s_2"].st = "moved" /\ Owners(env["s_2"].h) = {"s_3"}
    /\ env["s_4"].st = "moved" /\ Owners(env["s_4"].h) = {"s_5"}
    /\ Owners(env["gives_ownership.some_string"].h) = {"s_1"}

\* ------------------------------------------------------------------ C4
\* C4: every buffer is released exactly once, at the scope end of the
\* variable owning it then: never while it is owned, never twice; the
\* buffer given to takes_ownership is released when takes_ownership
\* returns; a buffer returned from a function is live in the caller; and
\* when the run ends every buffer has been released once.
C4_ReleasedExactlyOnce ==
    /\ \A b \in Buffers :
        /\ heap[b].releases <= 1
        /\ heap[b].live <=> heap[b].releases = 0
        /\ Owners(b) # {} => heap[b].live
        /\ pc = "done" => heap[b].releases = 1
    /\ pc \in {"L93", "L94"} =>
           heap[env["takes_ownership.some_string"].h].releases = 0
    /\ env["takes_ownership.some_string"].st = "dropped" =>
           heap[env["takes_ownership.some_string"].h].releases = 1
    /\ \A p \in {"gives_ownership.some_string", "takes_and_gives_back.a_string",
                 "calculate_length.s"} :
           (env[p].st = "dropped" /\ pc \in {"L56", "L60", "L62"}) =>
               heap[env[p].h].live

C4_Witness ==
    /\ mode = "main" /\ pc = "done"
    /\ Len(heap) = 12
    /\ \A b \in Buffers : heap[b].releases = 1
    /\ env["s1"].st = "dropped" /\ env["my_str"].st = "dropped"

\* ------------------------------------------------------------------ C5
\* C5: at every point the live references to a buffer are any number of
\* read-only ones or exactly one mutable one; r1 is not live once the
\* inner block has ended, so r2 is created with no other live reference
\* to str_3, whose content r1 left as it was.
C5_BorrowExclusivity ==
    /\ \A b \in Buffers : MutRefs(b) = {} \/ Cardinality(LiveRefs(b)) = 1
    /\ (mode = "main" /\ pc = "L77") =>
        /\ env["r1"].st = "dropped"
        /\ LiveRefs(env["str_3"].h) = {}
        /\ Content(heap, env, "str_3") = "hello"
    /\ (mode = "main" /\ pc = "L90" /\ env["r2"].st = "valid") =>
        LiveRefs(env["str_3"].h) = {"r2"}

C5_Witness ==
    /\ mode = "main" /\ pc = "L90"
    /\ env["r1"].st = "dropped"
    /\ MutRefs(env["str_3"].h) = {"r2"}

\* ------------------------------------------------------------------ C6
\* C6 as stated: the Mutate-in-place step prints exactly "hello, world!",
\* exactly once.
C6_Original == After("L18") => Count(out, "hello, world!") = 1

\* C6 as amended: the step builds "Hello", appends ", World!" and prints
\* exactly "Hello, World!", once in the run; str owns the same buffer
\* before and after the append.
C6_MutateInPlace ==
    mode = "main" =>
        /\ pc = "L17" =>
               Content(heap, env, "str") = "Hello" /\ Owners(2) = {"str"}
        /\ pc = "L18" =>
               Content(heap, env, "str") = "Hello, World!" /\ Owners(2) = {"str"}
        /\ Count(out, "Hello, World!") = IF After("L18") THEN 1 ELSE 0

C6_Witness ==
    /\ mode = "main" /\ pc = "L28"
    /\ out = <<"hello", "Hello, World!">>

\* ------------------------------------------------------------------ C7
\* C7: calculate_length returns the buffer it was given, content
\* unchanged, with the content's length, and ownership passes to the
\* caller's receiving variable: for "hello" the pair is ("hello", 5), s_4
\* is inert and s_5 the sole owner; likewise for any caller's text.
C7_calculate_length ==
    /\ (mode = "main" /\ pc = "L62") =>
        /\ Content(heap, env, "s_5") = "hello"
        /\ env["len"] = IntVal(5)
        /\ env["s_4"].st = "moved"
        /\ env["s_5"].h = env["s_4"].h
        /\ Owners(env["s_4"].h) = {"s_5"}
    /\ (mode = "unit" /\ pc = "U_end" /\ env["calculate_length.s"].st = "dropped"
            /\ env["res"].st = "valid") =>
        /\ Content(heap, env, "res") = lit
        /\ env["res_len"].n = Len(lit)
        /\ env["arg"].st = "moved"
        /\ env["res"].h = env["arg"].h
        /\ Owners(env["arg"].h) = {"res"}

C7_Witness ==
    /\ mode = "unit" /\ pc = "U_end" /\ lit = "ab"
    /\ env["calculate_length.s"].st = "dropped"
    /\ env["res"].st = "valid"
    /\ env["res_len"].n = 2

\* ------------------------------------------------------------------ C8
\* C8: calculate_length_ref returns the length of the buffer behind its
\* read-only reference (5 for "hello") and changes nothing: before,
\* during and after the call the buffer has the same content and the same
\* owner (str_1), the callee does not release it, the step that returns
\* leaves the heap, the output and every other variable as they were, and
\* the reference is not live once the call has returned.
C8_Inv ==
    /\ (mode = "main" /\ pc \in {"L66", "L117", "L67"}) =>
        /\ env["str_1"].h = 10
        /\ heap[10] = [content |-> "hello", live |-> TRUE, releases |-> 0]
        /\ Owners(10) = {"str_1"}
        /\ LiveRefs(10) = IF pc = "L117" THEN {"calculate_length_ref.s"} ELSE {}
        /\ pc = "L67" => env["len#2"] = IntVal(5)
    /\ (mode = "unit" /\ env["calculate_length_ref.s"].st # "undecl"
            /\ env["arg"].st = "valid") =>
        /\ heap = <<[content |-> lit, live |-> TRUE, releases |-> 0]>>
        /\ Owners(1) = {"arg"}
        /\ LiveRefs(1) = IF pc = "L117" THEN {"calculate_length_ref.s"} ELSE {}
        /\ pc = "U_end" => env["res_len"].n = Len(lit)
C8_Frame ==
    pc = "L117" =>
        /\ heap' = heap
        /\ out' = out
        /\ \A v \in VarNames \ {"calculate_length_ref.s", frame.dst2} : env'[v] = env[v]
\* C8: the state part holds always and the returning step keeps the frame.
C8_calculate_length_ref == []C8_Inv /\ [][C8_Frame]_vars

C8_Witness ==
    /\ mode = "main" /\ pc = "L67"
    /\ env["calculate_length_ref.s"].st = "dropped"
    /\ env["len#2"].n = 5
    /\ Owners(env["str_1"].h) = {"str_1"}

\* ------------------------------------------------------------------ C9
\* C9: when change has returned, the caller's variable (str_2, still the
\* owner) holds the original content followed by ", world" ("hello"
\* becomes "hello, world"), the mutable reference is not live, and the
\* call changed the content of no other buffer.
C9_Inv ==
    /\ (mode = "main" /\ pc = "L73") =>
        /\ Content(heap, env, "str_2") = "hello, world"
        /\ Owners(env["str_2"].h) = {"str_2"}
        /\ LiveRefs(env["str_2"].h) = {}
        /\ env["change.some_string"].st = "dropped"
    /\ (mode = "unit" /\ pc = "U_end" /\ env["change.some_string"].st = "dropped"
            /\ env["arg"].st = "valid") =>
        /\ Content(heap, env, "arg") = lit \o ", world"
        /\ Owners(env["arg"].h) = {"arg"}
        /\ LiveRefs(env["arg"].h) = {}
C9_Frame ==
    pc \in {"L71", "L123", "L124"} =>
        /\ DOMAIN heap' = DOMAIN heap
        /\ \A b \in Buffers :
               b # env[IF mode = "main" THEN "str_2" ELSE "arg"].h => heap'[b] = heap[b]
\* C9: the state part holds always and the call's steps keep the frame.
C9_change == []C9_Inv /\ [][C9_Frame]_vars

C9_Witness ==
    /\ mode = "main" /\ pc = "L73"
    /\ Content(heap, env, "str_2") = "hello, world"
    /\ env["change.some_string"].st = "dropped"

\* ------------------------------------------------------------------ C10
\* The statement that completes each of the 13 demonstration steps (for a
\* step that prints, its println!).
StepEnd ==
    <<"L14", "L18", "L33", "L38", "L44", "L93", "L97", "L103", "L107", "L62",
      "L67", "L124", "L77">>
StepsDone == Cardinality({i \in 1..Len(StepEnd) : After(StepEnd[i])})

PrintAt == <<"L14", "L18", "L38", "L44", "L93", "L97", "L62", "L67">>
Lines ==
    <<"hello", "Hello, World!", "my_s1 = hello, my_s2 = hello", "my_p = 5, my_q = 5",
      "hello", "5", "The length of 'hello' is 5", "The length of 'hello' is 5">>
PrintsDone == Cardinality({i \in 1..Len(PrintAt) : After(PrintAt[i])})

====
